---------------------------- MODULE Spec2Model ----------------------------
(***************************************************************************)
(* Trace-context propagation, sampling and log correlation of the two      *)
(* services of junler/trace-log-demo (service-a :8080, service-b :8081).   *)
(*                                                                         *)
(* Both services are gin routers with the middleware chain                 *)
(*   gin.Recovery -> otelgin.Middleware -> loggerWithTraceID -> handler    *)
(* and a tracer provider configured by initTracer:                         *)
(*   sampler    ParentBased(TraceIDRatioBased(0.01))                       *)
(*   processor  WithBatcher(stdout exporter)   (batch span processor)      *)
(*   propagator TraceContext{} + Baggage{}                                 *)
(* The operators below give these configured components the behaviour of   *)
(* the OpenTelemetry Go SDK the services link against.                     *)
(*                                                                         *)
(* Scaling.  Identifiers are byte strings whose width is scaled down       *)
(* (TraceIDBytes, SpanIDBytes); every operator is written against the      *)
(* width, not against a literal.  Identifiers are compared for equality    *)
(* only, except by the ratio sampler, which reads the low-order half of    *)
(* the TraceID.  Freshly generated identifiers are assumed not to collide  *)
(* with identifiers already in use (128/64 random bits in the program).    *)
(***************************************************************************)
EXTENDS Integers, Sequences, FiniteSets, TLC

\* ------------------------------------------------------------------ bounds
\* number of requests the outside world sends (each request to service A
\* issues one further request to service B)
MaxExternal == 2
\* generator pool for fresh TraceIDs: 1..MaxTraceIDs
MaxTraceIDs == 3
\* capacity of the batch span processor's queue (SDK default 2048)
MaxQueueSize == 2

\* width of a TraceID in bytes, scaled (16 in the program: 32 hex characters)
TraceIDBytes == 2
\* width of a SpanID in bytes, scaled (8 in the program: 16 hex characters)
SpanIDBytes == 1

\* ------------------------------------------------------- program constants
\* TraceIDRatioBased(0.01): the ratio in percent
RatioPct == 1
\* http.StatusOK
StatusOK == 200

Services == {"A", "B"}

Pow2(n) == 2 ^ n

\* ------------------------------------------------------------ hex encoding
HexDigits == <<"0", "1", "2", "3", "4", "5", "6", "7",
               "8", "9", "a", "b", "c", "d", "e", "f">>

LowerHex == {HexDigits[i] : i \in 1..16}

TraceHexLen == 2 * TraceIDBytes

SpanHexLen == 2 * SpanIDBytes

HexVal(c) == (CHOOSE i \in 1..16 : HexDigits[i] = c) - 1

\* hex.EncodeToString of an identifier of len/2 bytes (TraceID.String,
\* SpanID.String): fixed length, lowercase, zero padded
RECURSIVE EncodeHex(_, _)
EncodeHex(n, len) ==
    IF len = 0 THEN <<>>
    ELSE EncodeHex(n \div 16, len - 1) \o <<HexDigits[(n % 16) + 1]>>

\* hex.Decode of a part already known to consist of lowercase hex digits
RECURSIVE DecodeHex(_)
DecodeHex(p) ==
    IF p = <<>> THEN 0
    ELSE 16 * DecodeHex(SubSeq(p, 1, Len(p) - 1)) + HexVal(p[Len(p)])

\* TraceID.String()
TraceIDString(tid) == EncodeHex(tid, TraceHexLen)

\* --------------------------------------------------------------- contexts
\* trace.SpanContext; the zero value is the invalid ("absent") context
NoSC == [tid |-> 0, sid |-> 0, sampled |-> FALSE, remote |-> FALSE]

\* SpanContext.IsValid: non-zero TraceID and non-zero SpanID
IsValid(sc) == sc.tid # 0 /\ sc.sid # 0

\* ------------------------------------------------------------- propagator
Delim == "-"

\* strings.Cut(h, "-")
Cut(h) ==
    LET idx == {i \in 1..Len(h) : h[i] = Delim}
    IN  IF idx = {} THEN [part |-> h, left |-> <<>>]
        ELSE LET k == CHOOSE i \in idx : \A j \in idx : i <= j
             IN  [part |-> SubSeq(h, 1, k - 1),
                  left |-> SubSeq(h, k + 1, Len(h))]

\* variant: the length of a part is not checked
PartOKAnyLength(p, n) == p # <<>> /\ \A i \in 1..Len(p) : p[i] \in LowerHex

\* extractPart accepts a part of exactly n lowercase hex digits
PartOK(p, n) == Len(p) = n /\ \A i \in 1..Len(p) : p[i] \in LowerHex

\* highest version the propagator parses (0xff is invalid)
MaxVersion == 254

\* variant: only version 00 is parsed
ExtractVersion00Only(h) ==
    LET c1 == Cut(h)
        c2 == Cut(c1.left)
        c3 == Cut(c2.left)
        c4 == Cut(c3.left)
    IN  IF h = <<>> THEN NoSC
        ELSE IF c1.part # <<"0", "0">> THEN NoSC
        ELSE IF ~PartOK(c2.part, TraceHexLen) THEN NoSC
        ELSE IF ~PartOK(c3.part, SpanHexLen) THEN NoSC
        ELSE IF ~PartOK(c4.part, 2) THEN NoSC
        ELSE IF c4.left # <<>> \/ DecodeHex(c4.part) > 2 THEN NoSC
        ELSE LET sc == [tid     |-> DecodeHex(c2.part),
                        sid     |-> DecodeHex(c3.part),
                        sampled |-> DecodeHex(c4.part) % 2 = 1,
                        remote  |-> TRUE]
             IN  IF IsValid(sc) THEN sc ELSE NoSC

\* propagation.TraceContext.Extract on the traceparent header value h
\* (<<>> when the carrier has no such header)
Extract(h) ==
    LET c1 == Cut(h)
        c2 == Cut(c1.left)
        c3 == Cut(c2.left)
        c4 == Cut(c3.left)
    IN  IF h = <<>> THEN NoSC
        ELSE IF ~PartOK(c1.part, 2) THEN NoSC
        ELSE IF DecodeHex(c1.part) > MaxVersion THEN NoSC
        ELSE IF ~PartOK(c2.part, TraceHexLen) THEN NoSC
        ELSE IF ~PartOK(c3.part, SpanHexLen) THEN NoSC
        ELSE IF ~PartOK(c4.part, 2) THEN NoSC
        ELSE IF DecodeHex(c1.part) = 0
                /\ (c4.left # <<>> \/ DecodeHex(c4.part) > 2) THEN NoSC
        ELSE LET sc == [tid     |-> DecodeHex(c2.part),
                        sid     |-> DecodeHex(c3.part),
                        sampled |-> DecodeHex(c4.part) % 2 = 1,
                        remote  |-> TRUE]
             IN  IF IsValid(sc) THEN sc ELSE NoSC

\* variant: an unsampled context is not propagated
InjectSampledOnly(sc) ==
    IF ~IsValid(sc) \/ ~sc.sampled THEN <<>>
    ELSE <<"0", "0">> \o <<Delim>> \o EncodeHex(sc.tid, TraceHexLen)
         \o <<Delim>> \o EncodeHex(sc.sid, SpanHexLen)
         \o <<Delim>> \o <<"0", "1">>

\* variant: the sampled bit is not written
InjectWithoutFlag(sc) ==
    IF ~IsValid(sc) THEN <<>>
    ELSE <<"0", "0">> \o <<Delim>> \o EncodeHex(sc.tid, TraceHexLen)
         \o <<Delim>> \o EncodeHex(sc.sid, SpanHexLen)
         \o <<Delim>> \o <<"0", "0">>

\* propagation.TraceContext.Inject: version 00, flags reduced to the sampled
\* bit; nothing is written for an invalid context
Inject(sc) ==
    IF ~IsValid(sc) THEN <<>>
    ELSE <<"0", "0">> \o <<Delim>> \o EncodeHex(sc.tid, TraceHexLen)
         \o <<Delim>> \o EncodeHex(sc.sid, SpanHexLen)
         \o <<Delim>> \o EncodeHex(IF sc.sampled THEN 1 ELSE 0, 2)

\* ---------------------------------------------------------------- sampler
\* number of low-order TraceID bits the ratio sampler reads (bytes 8..15 of
\* 16 in the program: the low-order half)
LowBits == 8 * (TraceIDBytes \div 2)

\* variant: the bound itself is sampled
TraceIDRatioInclusive(pct, tid) ==
    IF pct >= 100 THEN TRUE
    ELSE LET fraction == IF pct <= 0 THEN 0 ELSE pct
             bound    == (fraction * Pow2(LowBits - 1)) \div 100
             x        == (tid % Pow2(LowBits)) \div 2
         IN  x <= bound

\* sdktrace.TraceIDRatioBased(pct/100).ShouldSample
TraceIDRatioBased(pct, tid) ==
    IF pct >= 100 THEN TRUE
    ELSE LET fraction == IF pct <= 0 THEN 0 ELSE pct
             bound    == (fraction * Pow2(LowBits - 1)) \div 100
             x        == (tid % Pow2(LowBits)) \div 2
         IN  x < bound

\* variant: the ratio is asked for every span
ParentIgnored(pct, parent, tid) == TraceIDRatioBased(pct, tid)

\* sdktrace.ParentBased(root).ShouldSample: a valid parent context, remote or
\* local, fixes the decision to its sampled flag; only a root asks the ratio
ParentBased(pct, parent, tid) ==
    IF IsValid(parent) THEN parent.sampled
    ELSE TraceIDRatioBased(pct, tid)


\* ----------------------------------------------------------------- inputs
\* identifiers of traces and spans that other parties created
ExtTraceID == 10 * 16 + 11

ExtSpanID == 12 * 16 + 13

\* a traceparent value: {version}-{trace-id}-{span-id}-{flags}
Header(ver, t, s, f) == ver \o <<Delim>> \o t \o <<Delim>> \o s \o <<Delim>> \o f

ExtT == EncodeHex(ExtTraceID, TraceHexLen)

ExtS == EncodeHex(ExtSpanID, SpanHexLen)

BogusValue == <<"b", "o", "g", "u", "s", "-", "v", "a", "l", "u", "e">>

\* well-formed version-00 headers, sampled and not
HdrSampled == Header(<<"0", "0">>, ExtT, ExtS, <<"0", "1">>)

HdrUnsampled == Header(<<"0", "0">>, ExtT, ExtS, <<"0", "0">>)

\* version 00, flags 02: accepted, sampled bit clear
HdrFlags02 == Header(<<"0", "0">>, ExtT, ExtS, <<"0", "2">>)

\* a later version, same layout
HdrVersion01 == Header(<<"0", "1">>, ExtT, ExtS, <<"0", "1">>)

\* the highest version the propagator parses, with the sampled bit clear
HdrVersionFE == Header(<<"f", "e">>, ExtT, ExtS, <<"0", "0">>)

\* a later version with a flags byte version 00 does not allow
HdrVersion02Flags03 == Header(<<"0", "2">>, ExtT, ExtS, <<"0", "3">>)

\* version ff, which the W3C format forbids
HdrVersionFF == Header(<<"f", "f">>, ExtT, ExtS, <<"0", "1">>)

\* values whose version is not 00, all other segments in place
OtherVersionHeaders == {HdrVersion01, HdrVersionFE, HdrVersion02Flags03, HdrVersionFF}

\* malformed values
HdrShortTrace == Header(<<"0", "0">>, SubSeq(ExtT, 1, TraceHexLen - 1), ExtS, <<"0", "1">>)

HdrNonHex == Header(<<"0", "0">>, <<"g">> \o SubSeq(ExtT, 2, TraceHexLen), ExtS, <<"0", "1">>)

NoHeader == <<>>

\* values that extract accepts
WellFormedHeaders == {HdrSampled, HdrUnsampled, HdrFlags02, HdrVersion01}

\* values that are no traceparent: wrong segment count, wrong length,
\* a character that is no hex digit
MalformedHeaders == {BogusValue, HdrShortTrace, HdrNonHex}

\* what the outside world may put into the traceparent header of a request
InboundHeaders == {NoHeader} \cup WellFormedHeaders \cup MalformedHeaders

\* values of the baggage header: none, one member, the member with another
\* value, a value that is no member list
NoBaggage == <<>>

BagKV == <<"k", "=", "v">>

BagKW == <<"k", "=", "w">>

BagMalformed == <<"k">>

Baggages == {NoBaggage, BagKV, BagKW, BagMalformed}

\* baggage.Parse of a header value with one member: key=value with a
\* non-empty key; anything else is an error and yields no baggage
ParseBaggage(b) ==
    LET eq == {i \in 1..Len(b) : b[i] = "="}
    IN  IF eq = {} THEN {}
        ELSE LET k == CHOOSE i \in eq : \A j \in eq : i <= j
             IN  IF k = 1 THEN {}
                 ELSE {[key |-> SubSeq(b, 1, k - 1), value |-> SubSeq(b, k + 1, Len(b))]}

\* Baggage.String(): the header value propagation.Baggage injects
BaggageString(bg) ==
    IF bg = {} THEN <<>>
    ELSE LET m == CHOOSE x \in bg : TRUE IN m.key \o <<"=">> \o m.value

\* what a request carries besides traceparent: the :id of /users/:id
\* (service B's /info takes none) and the baggage header; route tells
\* whether its path is the one the service registered
Request(id, bag) == [id |-> id, bag |-> bag, route |-> TRUE]

\* a GET for a path the service has no route for
OtherPath == [id |-> "", bag |-> NoBaggage, route |-> FALSE]

\* http.StatusNotFound, which gin answers where no route matches
StatusNotFound == 404

\* curl http://localhost:8080/users/123
Plain == Request("123", NoBaggage)

\* the id getUser knows and one it does not
UserIds == {"123", "7"}

\* ------------------------------------------------------------------ state
VARIABLES
    ratio,      \* sampling ratio in percent the samplers were built with
    started,    \* per service: main() has reached r.Run
    reqs,       \* per request slot: the handler chain's position and locals
    spans,      \* span id -> span, for every span started so far
    logs,       \* the records written through the zap logger
    queue,      \* per service: the batch span processor's queue
    exported,   \* per service: span ids the consumer handed to the exporter
    dropped     \* per service: the processor's dropped counter

vars == <<ratio, started, reqs, spans, logs, queue, exported, dropped>>

\* request slots: 1..MaxExternal are requests from outside, slot
\* r + MaxExternal is the request service A issues while serving slot r
ExternalIds == 1..MaxExternal

ReqIds == 1..(2 * MaxExternal)

ChildOf(r) == r + MaxExternal

IdleReq == [svc |-> "", pc |-> "idle", hdr |-> <<>>, ctx |-> NoSC,
            traceID |-> <<>>, status |-> 0, err |-> FALSE,
            id |-> "", result |-> "", bag |-> <<>>, baggage |-> {},
            cancelled |-> FALSE, openAtCancel |-> {},
            route |-> TRUE, accessLogs |-> 0]

\* the handler chain of request slot r has been entered
Running(r) == reqs[r].pc \notin {"idle", "inflight"}

\* spans of one request, in the order the handler chain starts them
Kinds == <<"server", "handler", "client", "render">>

KindIndex(k) == CHOOSE i \in 1..Len(Kinds) : Kinds[i] = k

\* the id generator's value for the span of kind k of request r: one value
\* per span, never zero, never a value handed out before
NewSpanID(r, k) == (r - 1) * Len(Kinds) + KindIndex(k)

\* TraceIDs already in use anywhere
UsedTraceIDs == {spans[i].tid : i \in DOMAIN spans} \cup {ExtTraceID}

\* the id generator's candidates for a new TraceID
FreshTraceIDs == (1..MaxTraceIDs) \ UsedTraceIDs

\* SpanContext of a span
SC(sp) == [tid |-> sp.tid, sid |-> sp.sid, sampled |-> sp.sampled, remote |-> FALSE]

\* attribute keys a span is started with: those of oteltrace.WithAttributes
\* in getUser and getInfo, the HTTP and template keys of the instrumentation
SpanAttributes(name) ==
    CASE name = "getUser"           -> {"id"}
      [] name = "getInfo"           -> {"service"}
      [] name = "HTTP GET"          -> {"http.method", "http.url"}
      [] name = "gin.renderer.html" -> {"go.template"}
      [] OTHER                      -> {"http.method", "http.route"}

\* variant: the sampler is handed the SpanID
StartSpanSampledBySpanID(s, r, name, parent, sid, t) ==
    LET tid == IF IsValid(parent) THEN parent.tid ELSE t
    IN  [tid     |-> tid,
         sid     |-> sid,
         parent  |-> IF IsValid(parent) THEN parent.sid ELSE 0,
         remote  |-> IsValid(parent) /\ parent.remote,
         name    |-> name,
         svc     |-> s,
         req     |-> r,
         sampled |-> ParentBased(ratio, parent, sid),
         ended   |-> FALSE,
         endedAt |-> "",
         attrs   |-> SpanAttributes(name),
         status  |-> ""]

\* variant: a request with baggage is always sampled
StartSpanBaggageSampled(s, r, name, parent, sid, t) ==
    LET tid == IF IsValid(parent) THEN parent.tid ELSE t
    IN  [tid     |-> tid,
         sid     |-> sid,
         parent  |-> IF IsValid(parent) THEN parent.sid ELSE 0,
         remote  |-> IsValid(parent) /\ parent.remote,
         name    |-> name,
         svc     |-> s,
         req     |-> r,
         sampled |-> ParentBased(ratio, parent, tid) \/ reqs[r].baggage # {},
         ended   |-> FALSE,
         endedAt |-> "",
         attrs   |-> SpanAttributes(name),
         status  |-> ""]

\* tracer.Start(ctx, name): parent is the SpanContext active in ctx, sid the
\* generated SpanID, t the generated TraceID (used by a root only); endedAt
\* stands for the end time: the call site whose End stamped it; status is
\* the description of an Error status, "" while the status is unset
StartSpan(s, r, name, parent, sid, t) ==
    LET tid == IF IsValid(parent) THEN parent.tid ELSE t
    IN  [tid     |-> tid,
         sid     |-> sid,
         parent  |-> IF IsValid(parent) THEN parent.sid ELSE 0,
         remote  |-> IsValid(parent) /\ parent.remote,
         name    |-> name,
         svc     |-> s,
         req     |-> r,
         sampled |-> ParentBased(ratio, parent, tid),
         ended   |-> FALSE,
         endedAt |-> "",
         attrs   |-> SpanAttributes(name),
         status  |-> ""]

\* variant: the queue takes a span although it is full
EnqueueUnbounded(q, sp) == IF ~sp.sampled THEN q ELSE Append(q, sp.sid)

\* variant: the sampled flag is not looked at
EnqueueUnsampled(q, sp) == IF Len(q) < MaxQueueSize THEN Append(q, sp.sid) ELSE q

\* batch span processor OnEnd -> enqueueDrop: only sampled spans are queued;
\* a full queue drops the span and counts it, the caller never waits
Enqueue(q, sp) ==
    IF ~sp.sampled THEN q
    ELSE IF Len(q) < MaxQueueSize THEN Append(q, sp.sid)
    ELSE q

Dropped(q, d, sp) ==
    IF sp.sampled /\ Len(q) >= MaxQueueSize THEN d + 1 ELSE d

\* the tracer provider's state a span operation works on
Tracing == [spans |-> spans, queue |-> queue, dropped |-> dropped]

\* a span just started is entered into the provider's state
Begin(st, sp) == [st EXCEPT !.spans = @ @@ (sp.sid :> sp)]

\* span.SetStatus(codes.Error, err.Error()): the description is kept, the
\* attributes are not touched
SetStatus(st, i, desc) == [st EXCEPT !.spans[i].status = desc]

\* variant: End does not test whether the span has ended
EndAgain(st, i, site) ==
    LET sp == st.spans[i]
    IN  [spans   |-> [st.spans EXCEPT ![i] = [@ EXCEPT !.ended = TRUE, !.endedAt = site]],
         queue   |-> [st.queue EXCEPT ![sp.svc] = Enqueue(@, sp)],
         dropped |-> [st.dropped EXCEPT ![sp.svc] = Dropped(st.queue[sp.svc], @, sp)]]

\* span.End() called at `site`: a span that has ended is left as it is and
\* nothing is written or returned (recordingSpan.End returns when the span
\* is no longer recording); otherwise the end is stamped and the span goes
\* to the processor's OnEnd
End(st, i, site) ==
    LET sp == st.spans[i]
    IN  IF sp.ended THEN st
        ELSE [spans   |-> [st.spans EXCEPT ![i] = [@ EXCEPT !.ended = TRUE, !.endedAt = site]],
              queue   |-> [st.queue EXCEPT ![sp.svc] = Enqueue(@, sp)],
              dropped |-> [st.dropped EXCEPT ![sp.svc] = Dropped(st.queue[sp.svc], @, sp)]]

\* the provider's state after a span operation
Traced(st) == spans' = st.spans /\ queue' = st.queue /\ dropped' = st.dropped

\* a zap record; has_trace_id tells whether the trace_id field was passed
LogRec(s, r, level, msg, has, tid) ==
    [svc |-> s, req |-> r, level |-> level, msg |-> msg,
     has_trace_id |-> has, trace_id |-> tid]

InitBase ==
    /\ started = [s \in Services |-> FALSE]
    /\ reqs = [r \in ReqIds |-> IdleReq]
    /\ spans = <<>>
    /\ logs = {}
    /\ queue = [s \in Services |-> <<>>]
    /\ exported = [s \in Services |-> {}]
    /\ dropped = [s \in Services |-> 0]

\* the services as built: TraceIDRatioBased(0.01)
Init == InitBase /\ ratio = RatioPct

\* ---------------------------------------------------------------- actions
\* main(): logger and tracer are initialised, the startup record is written
\* without a trace_id field, then the router runs
Startup(s) ==
    /\ ~started[s]
    /\ started' = [started EXCEPT ![s] = TRUE]
    /\ logs' = logs \cup {LogRec(s, 0, "info", "Service starting", FALSE, <<>>)}
    /\ UNCHANGED <<ratio, reqs, spans, queue, exported, dropped>>

ServerSpanName(s) == IF s = "A" THEN "GET /users/:id" ELSE "GET /info"

\* otelgin.Middleware up to c.Next(): extract the inbound context (span
\* context and baggage), start the server span under it and put the new
\* context into c.Request;
\* loggerWithTraceID up to c.Next() only reads the request
Middleware(r, s, h, t, x) ==
    LET parent == Extract(h)
        name   == IF x.route THEN ServerSpanName(s) ELSE "HTTP GET route not found"
        sp     == StartSpan(s, r, name, parent, NewSpanID(r, "server"), t)
    IN  /\ IF IsValid(parent) THEN t = 0 ELSE t \in FreshTraceIDs
        /\ spans' = spans @@ (sp.sid :> sp)
        /\ reqs' = [reqs EXCEPT ![r] =
                      [@ EXCEPT !.svc = s, !.pc = "mw", !.hdr = h, !.ctx = SC(sp),
                                !.id = IF s = "A" THEN x.id ELSE "",
                                !.route = x.route,
                                !.bag = x.bag, !.baggage = ParseBaggage(x.bag)]]

\* a request x from outside reaches service s carrying traceparent h
ReceiveExternal(r, s, h, t, x) ==
    /\ started[s]
    /\ reqs[r].pc = "idle"
    /\ \A q \in ExternalIds : q < r => reqs[q].pc # "idle"
    /\ Middleware(r, s, h, t, x)
    /\ UNCHANGED <<ratio, started, logs, queue, exported, dropped>>

\* the request service A sent reaches service B
ReceiveCall(r, t) ==
    /\ reqs[r].pc = "inflight"
    /\ started["B"]
    /\ Middleware(r, "B", reqs[r].hdr, t, Request("", reqs[r].bag))
    /\ UNCHANGED <<ratio, started, logs, queue, exported, dropped>>

\* variant: the context tracer.Start returns is stored back into c.Request
GetUserStartRebindsRequest(r) ==
    LET sp  == StartSpan("A", r, "getUser", reqs[r].ctx, NewSpanID(r, "handler"), 0)
        tid == TraceIDString(sp.tid)
    IN  /\ reqs[r].svc = "A" /\ reqs[r].pc = "mw" /\ reqs[r].route
        /\ spans' = spans @@ (sp.sid :> sp)
        /\ reqs' = [reqs EXCEPT ![r] = [@ EXCEPT !.pc = "user", !.traceID = tid,
                                                 !.ctx = SC(sp)]]
        /\ logs' = logs \cup {LogRec("A", r, "info", "Getting user", TRUE, tid),
                              LogRec("A", r, "info", "Calling service-b", TRUE, tid)}
        /\ UNCHANGED <<ratio, started, queue, exported, dropped>>

\* service A's getUser, lines 119-130: start the getUser span under
\* c.Request.Context(), keep its TraceID string, write two records; the
\* context tracer.Start returns is a local of getUser, c.Request keeps its own
GetUserStart(r) ==
    LET sp  == StartSpan("A", r, "getUser", reqs[r].ctx, NewSpanID(r, "handler"), 0)
        tid == TraceIDString(sp.tid)
    IN  /\ reqs[r].svc = "A" /\ reqs[r].pc = "mw" /\ reqs[r].route
        /\ spans' = spans @@ (sp.sid :> sp)
        /\ reqs' = [reqs EXCEPT ![r] = [@ EXCEPT !.pc = "user", !.traceID = tid]]
        /\ logs' = logs \cup {LogRec("A", r, "info", "Getting user", TRUE, tid),
                              LogRec("A", r, "info", "Calling service-b", TRUE, tid)}
        /\ UNCHANGED <<ratio, started, queue, exported, dropped>>

\* variant: the context of getUser is injected, not that of the client span
ClientDoSendCallerContext(r) ==
    LET user == spans[NewSpanID(r, "handler")]
        sp   == StartSpan("A", r, "HTTP GET", SC(user), NewSpanID(r, "client"), 0)
    IN  /\ reqs[r].svc = "A" /\ reqs[r].pc = "user"
        /\ started["B"] /\ ~reqs[r].cancelled
        /\ spans' = spans @@ (sp.sid :> sp)
        /\ reqs' = [reqs EXCEPT ![r] = [@ EXCEPT !.pc = "wait"],
                                ![ChildOf(r)] = [@ EXCEPT !.svc = "B", !.pc = "inflight",
                                                          !.hdr = Inject(SC(user)),
                                                          !.bag = BaggageString(reqs[r].baggage)]]
        /\ UNCHANGED <<ratio, started, logs, queue, exported, dropped>>

\* client.Do through otelhttp.NewTransport: start the client span under the
\* getUser span, inject its context (traceparent and, when the context has
\* any, baggage) into the outbound request and send it
ClientDoSend(r) ==
    LET user == spans[NewSpanID(r, "handler")]
        sp   == StartSpan("A", r, "HTTP GET", SC(user), NewSpanID(r, "client"), 0)
    IN  /\ reqs[r].svc = "A" /\ reqs[r].pc = "user"
        /\ started["B"] /\ ~reqs[r].cancelled
        /\ spans' = spans @@ (sp.sid :> sp)
        /\ reqs' = [reqs EXCEPT ![r] = [@ EXCEPT !.pc = "wait"],
                                ![ChildOf(r)] = [@ EXCEPT !.svc = "B", !.pc = "inflight",
                                                          !.hdr = Inject(SC(sp)),
                                                          !.bag = BaggageString(reqs[r].baggage)]]
        /\ UNCHANGED <<ratio, started, logs, queue, exported, dropped>>

\* variant: the failed call ends the request with status 500
ClientDoFailAborts(r) ==
    LET user == spans[NewSpanID(r, "handler")]
        sp   == StartSpan("A", r, "HTTP GET", SC(user), NewSpanID(r, "client"), 0)
    IN  /\ reqs[r].svc = "A" /\ reqs[r].pc = "user"
        /\ ~started["B"] \/ reqs[r].cancelled
        /\ Traced(End(End(Begin(Tracing, sp), sp.sid, "transport"), user.sid, "defer"))
        /\ reqs' = [reqs EXCEPT ![r] = [@ EXCEPT !.pc = "written", !.err = TRUE,
                                                 !.status = 500]]
        /\ logs' = logs \cup {LogRec("A", r, "error", "Failed to call service-b",
                                     TRUE, reqs[r].traceID)}
        /\ UNCHANGED <<ratio, started, exported>>

\* err.Error() of the error client.Do returns
ErrorText(r) == IF reqs[r].cancelled THEN "context canceled" ELSE "connection refused"

\* client.Do returning an error at once (service B not listening, or the
\* request's context already cancelled): the client span is started, given
\* the Error status and ended, getUser writes the error record (lines 133-134)
ClientDoFail(r) ==
    LET user == spans[NewSpanID(r, "handler")]
        sp   == StartSpan("A", r, "HTTP GET", SC(user), NewSpanID(r, "client"), 0)
    IN  /\ reqs[r].svc = "A" /\ reqs[r].pc = "user"
        /\ ~started["B"] \/ reqs[r].cancelled
        /\ Traced(End(SetStatus(Begin(Tracing, sp), sp.sid, ErrorText(r)),
                      sp.sid, "transport"))
        /\ reqs' = [reqs EXCEPT ![r] = [@ EXCEPT !.pc = "resp", !.err = TRUE]]
        /\ logs' = logs \cup {LogRec("A", r, "error", "Failed to call service-b",
                                     TRUE, reqs[r].traceID)}
        /\ UNCHANGED <<ratio, started, exported>>

\* the inbound request of r is cancelled while client.Do waits for service
\* B: the transport gives up and closes the connection, which cancels the
\* context of the request in service B; the client span gets the Error
\* status and is ended, getUser writes the error record
ClientDoCancelled(r) ==
    LET sp == spans[NewSpanID(r, "client")]
    IN  /\ reqs[r].svc = "A" /\ reqs[r].pc = "wait"
        /\ reqs[r].cancelled
        /\ Traced(End(SetStatus(Tracing, sp.sid, ErrorText(r)), sp.sid, "transport"))
        /\ reqs' = [reqs EXCEPT ![r] = [@ EXCEPT !.pc = "resp", !.err = TRUE],
                                ![ChildOf(r)] = [@ EXCEPT !.cancelled = TRUE,
                                     !.openAtCancel = {i \in DOMAIN spans :
                                         spans[i].req = ChildOf(r) /\ ~spans[i].ended}]]
        /\ logs' = logs \cup {LogRec("A", r, "error", "Failed to call service-b",
                                     TRUE, reqs[r].traceID)}
        /\ UNCHANGED <<ratio, started, exported>>

\* the client of request r goes away or its deadline passes: the context of
\* c.Request is cancelled; the handler chain is not interrupted.
\* openAtCancel keeps which spans of r were open at that moment
Cancel(r) ==
    /\ Running(r) /\ reqs[r].pc # "done"
    /\ ~reqs[r].cancelled
    /\ reqs' = [reqs EXCEPT ![r] = [@ EXCEPT !.cancelled = TRUE,
                     !.openAtCancel = {i \in DOMAIN spans :
                                          spans[i].req = r /\ ~spans[i].ended}]]
    /\ UNCHANGED <<ratio, started, spans, logs, queue, exported, dropped>>

\* the response of service B arrives and is read to its end (lines 136-138):
\* the body otelhttp wrapped ends the client span when io.ReadAll reaches
\* EOF, getUser writes the response record
ClientDoDone(r) ==
    LET sp == spans[NewSpanID(r, "client")]
    IN  /\ reqs[r].svc = "A" /\ reqs[r].pc = "wait"
        /\ reqs[ChildOf(r)].pc = "done"
        /\ Traced(End(Tracing, sp.sid, "eof"))
        /\ reqs' = [reqs EXCEPT ![r] = [@ EXCEPT !.pc = "resp"]]
        /\ logs' = logs \cup {LogRec("A", r, "info", "Service-b response",
                                     TRUE, reqs[r].traceID)}
        /\ UNCHANGED <<ratio, started, exported>>

\* getUser lines 141-146
UserName(id) == IF id = "123" THEN "otelgin tester" ELSE "unknown"

\* getUser lines 141-149 and its deferred calls, last deferred first:
\* resp.Body.Close() (line 136, when the call returned a response), which
\* calls End on the client span a second time, then span.End() (line 120)
GetUserReturn(r) ==
    LET sp     == spans[NewSpanID(r, "handler")]
        closed == IF reqs[r].err THEN Tracing
                  ELSE End(Tracing, NewSpanID(r, "client"), "close")
    IN  /\ reqs[r].svc = "A" /\ reqs[r].pc = "resp"
        /\ Traced(End(closed, sp.sid, "defer"))
        /\ reqs' = [reqs EXCEPT ![r] = [@ EXCEPT !.pc = "returned",
                                                 !.result = UserName(reqs[r].id)]]
        /\ logs' = logs \cup {LogRec("A", r, "info", "Returning user",
                                     TRUE, reqs[r].traceID)}
        /\ UNCHANGED <<ratio, started, exported>>

\* otelgin.HTML(c, http.StatusOK, ...): the gin.renderer.html span is
\* started under c.Request.Context() and ended around the rendering
RenderHTML(r) ==
    LET sp == StartSpan("A", r, "gin.renderer.html", reqs[r].ctx, NewSpanID(r, "render"), 0)
    IN  /\ reqs[r].svc = "A" /\ reqs[r].pc = "returned"
        /\ Traced(End(Begin(Tracing, sp), sp.sid, "render"))
        /\ reqs' = [reqs EXCEPT ![r] = [@ EXCEPT !.pc = "written", !.status = StatusOK]]
        /\ UNCHANGED <<ratio, started, logs, exported>>

\* service B's getInfo, lines 112-116
GetInfoStart(r) ==
    LET sp  == StartSpan("B", r, "getInfo", reqs[r].ctx, NewSpanID(r, "handler"), 0)
        tid == TraceIDString(sp.tid)
    IN  /\ reqs[r].svc = "B" /\ reqs[r].pc = "mw" /\ reqs[r].route
        /\ spans' = spans @@ (sp.sid :> sp)
        /\ reqs' = [reqs EXCEPT ![r] = [@ EXCEPT !.pc = "info", !.traceID = tid]]
        /\ logs' = logs \cup {LogRec("B", r, "info", "Processing info request", TRUE, tid)}
        /\ UNCHANGED <<ratio, started, queue, exported, dropped>>

\* getInfo lines 119-123 with its deferred span.End(), then c.JSON(200, ...)
GetInfoReturn(r) ==
    LET sp == spans[NewSpanID(r, "handler")]
    IN  /\ reqs[r].svc = "B" /\ reqs[r].pc = "info"
        /\ Traced(End(Tracing, sp.sid, "defer"))
        /\ reqs' = [reqs EXCEPT ![r] = [@ EXCEPT !.pc = "written", !.status = StatusOK]]
        /\ logs' = logs \cup {LogRec("B", r, "info", "Processed result",
                                     TRUE, reqs[r].traceID)}
        /\ UNCHANGED <<ratio, started, exported>>

\* no route matches the request: after the middleware chain gin's 404
\* handler answers, no handler of the service runs
NotFound(r) ==
    /\ reqs[r].pc = "mw" /\ ~reqs[r].route
    /\ reqs' = [reqs EXCEPT ![r] = [@ EXCEPT !.pc = "written", !.status = StatusNotFound]]
    /\ UNCHANGED <<ratio, started, spans, logs, queue, exported, dropped>>

\* variant: the access record is always written at Info
AccessLevelAlwaysInfo(status) == "info"

\* zap level of the access record
AccessLevel(status) ==
    IF status >= 500 THEN "error"
    ELSE IF status >= 400 THEN "warn"
    ELSE "info"

\* variant: the trace id is read from the inbound header
AccessLogFromHeader(r) ==
    LET s == reqs[r].svc
    IN  /\ reqs[r].pc = "written"
        /\ logs' = logs \cup {LogRec(s, r, AccessLevel(reqs[r].status), "HTTP Request",
                                     TRUE, TraceIDString(Extract(reqs[r].hdr).tid))}
        /\ reqs' = [reqs EXCEPT ![r] = [@ EXCEPT !.pc = "logged",
                                                 !.accessLogs = @ + 1]]
        /\ UNCHANGED <<ratio, started, spans, queue, exported, dropped>>

\* variant: the context is one variable all requests share, so the record
\* gets the trace id of whichever request bound it last
AccessLogSharedContext(r) ==
    LET s == reqs[r].svc
    IN  /\ reqs[r].pc = "written"
        /\ \E q \in ReqIds :
              /\ Running(q) /\ reqs[q].svc = s
              /\ logs' = logs \cup {LogRec(s, r, AccessLevel(reqs[r].status), "HTTP Request",
                                           TRUE, TraceIDString(reqs[q].ctx.tid))}
        /\ reqs' = [reqs EXCEPT ![r] = [@ EXCEPT !.pc = "logged",
                                                 !.accessLogs = @ + 1]]
        /\ UNCHANGED <<ratio, started, spans, queue, exported, dropped>>

\* loggerWithTraceID after c.Next(): the trace id of the span in
\* c.Request.Context() goes into the access record, no validity test;
\* accessLogs counts the records written for the request
AccessLog(r) ==
    LET s == reqs[r].svc
    IN  /\ reqs[r].pc = "written"
        /\ logs' = logs \cup {LogRec(s, r, AccessLevel(reqs[r].status), "HTTP Request",
                                     TRUE, TraceIDString(reqs[r].ctx.tid))}
        /\ reqs' = [reqs EXCEPT ![r] = [@ EXCEPT !.pc = "logged",
                                                 !.accessLogs = @ + 1]]
        /\ UNCHANGED <<ratio, started, spans, queue, exported, dropped>>

\* otelgin.Middleware after c.Next(): the deferred End of the server span;
\* the handler chain is over and net/http sends the response
ServerSpanEnd(r) ==
    LET s  == reqs[r].svc
        sp == spans[NewSpanID(r, "server")]
    IN  /\ reqs[r].pc = "logged"
        /\ Traced(End(Tracing, sp.sid, "middleware"))
        /\ reqs' = [reqs EXCEPT ![r] = [@ EXCEPT !.pc = "done"]]
        /\ UNCHANGED <<ratio, started, logs, exported>>

\* the processor's consumer goroutine takes the oldest span off the queue;
\* it reaches the exporter with the consumer's next batch
Consumer(s) ==
    /\ queue[s] # <<>>
    /\ queue' = [queue EXCEPT ![s] = Tail(@)]
    /\ exported' = [exported EXCEPT ![s] = @ \cup {Head(queue[s])}]
    /\ UNCHANGED <<ratio, started, reqs, spans, logs, dropped>>

\* the request path of both services, H being the traceparent values and X
\* the requests the outside world sends
RequestsOf(H, X) ==
    \/ \E s \in Services : Startup(s)
    \/ \E r \in ExternalIds, s \in Services, h \in H,
          t \in 0..MaxTraceIDs, x \in X : ReceiveExternal(r, s, h, t, x)
    \/ \E r \in ReqIds, t \in 0..MaxTraceIDs : ReceiveCall(r, t)
    \/ \E r \in ReqIds : GetUserStart(r)
    \/ \E r \in ReqIds : ClientDoSend(r)
    \/ \E r \in ReqIds : ClientDoFail(r)
    \/ \E r \in ReqIds : ClientDoDone(r)
    \/ \E r \in ReqIds : GetUserReturn(r)
    \/ \E r \in ReqIds : RenderHTML(r)
    \/ \E r \in ReqIds : GetInfoStart(r)
    \/ \E r \in ReqIds : GetInfoReturn(r)
    \/ \E r \in ReqIds : AccessLog(r)
    \/ \E r \in ReqIds : ServerSpanEnd(r)

\* the request of the README with any of the traceparent values H
Requests(H) == RequestsOf(H, {Plain})

Next ==
    \/ Requests(InboundHeaders)
    \/ \E s \in Services : Consumer(s)

Spec == Init /\ [][Next]_vars

\* The request path alone.  Consumer changes queue and exported only, and no
\* request-path action reads them except to update queue and dropped, so a
\* property of the other variables holds under Spec iff it holds here.
NextRequests == Requests(InboundHeaders)

SpecRequests == Init /\ [][NextRequests]_vars

\* Requests of one sampled upstream trace and requests without a header,
\* with the consumer running: the export path under load.
NextExport ==
    \/ Requests({NoHeader, HdrSampled})
    \/ \E s \in Services : Consumer(s)

SpecExport == Init /\ [][NextExport]_vars

\* The services built with another ratio (the argument of TraceIDRatioBased
\* is the one parameter the README tells operators to change).
Ratios == {0, RatioPct, 100}

InitRatio == InitBase /\ ratio \in Ratios

NextRatio == Requests({NoHeader, HdrSampled, HdrUnsampled})

SpecRatio == InitRatio /\ [][NextRatio]_vars

\* Requests with and without baggage, as roots and inside a trace that
\* entered sampled or unsampled.
NextBaggage ==
    RequestsOf({NoHeader, HdrSampled, HdrUnsampled}, {Request("123", b) : b \in Baggages})

SpecBaggage == Init /\ [][NextBaggage]_vars

\* Requests that carry a traceparent of a version other than 00.
NextVersions == RequestsOf({HdrSampled} \cup OtherVersionHeaders, {Plain})

SpecVersions == Init /\ [][NextVersions]_vars

\* Requests for the registered path and for a path without route.
NextRoutes ==
    \/ RequestsOf({NoHeader, HdrSampled}, {Plain, OtherPath})
    \/ \E r \in ReqIds : NotFound(r)

SpecRoutes == Init /\ [][NextRoutes]_vars

\* Requests whose client goes away at any point of the handler chain.
NextCancel ==
    \/ RequestsOf({NoHeader}, {Plain})
    \/ \E r \in ExternalIds : Cancel(r)
    \/ \E r \in ReqIds : ClientDoCancelled(r)

SpecCancel == Init /\ [][NextCancel]_vars

\* Calls that fail and calls that succeed, for either id: service B may
\* not be listening yet when service A calls it, and the inbound request
\* may be cancelled before or during the call.
NextFailure ==
    \/ RequestsOf({NoHeader}, {Request(i, NoBaggage) : i \in UserIds})
    \/ \E r \in ExternalIds : Cancel(r)
    \/ \E r \in ReqIds : ClientDoCancelled(r)

SpecFailure == Init /\ [][NextFailure]_vars

\* =================================================================== claims
\* ---------------------------------------------------------------- helpers
IsCall(r) == r \notin ExternalIds

Caller(r) == r - MaxExternal

HasSpan(r, k) == NewSpanID(r, k) \in DOMAIN spans

SpanOf(r, k) == spans[NewSpanID(r, k)]

KindOf(sid) == Kinds[((sid - 1) % Len(Kinds)) + 1]

\* the k-th "-"-separated segment of a header value
RECURSIVE Seg(_, _)
Seg(h, k) == IF k = 1 THEN Cut(h).part ELSE Seg(Cut(h).left, k - 1)

\* the oldest ancestor of span i that these services started
RECURSIVE Top(_)
Top(i) == IF spans[i].parent \in DOMAIN spans THEN Top(spans[i].parent) ELSE i

\* the SpanID active in the context span sp was started from, by the place
\* of the tracer.Start call in the handler chain
ActiveSpanID(sp) ==
    CASE KindOf(sp.sid) = "handler" -> NewSpanID(sp.req, "server")
      [] KindOf(sp.sid) = "render"  -> NewSpanID(sp.req, "server")
      [] KindOf(sp.sid) = "client"  -> NewSpanID(sp.req, "handler")
      [] KindOf(sp.sid) = "server"  ->
             IF IsCall(sp.req) THEN NewSpanID(Caller(sp.req), "client")
             ELSE DecodeHex(Seg(reqs[sp.req].hdr, 3))

Roots == {i \in DOMAIN spans : spans[i].parent = 0}

\* C1: every span started under an active SpanContext has the TraceID and
\* the sampled flag of the root of its trace, and its parent is the span
\* that was active where it was started; a trace that entered with a header
\* keeps the header's TraceID and sampled flag.
C1_DescendantsFollowRoot ==
    \A i \in DOMAIN spans :
        LET sp  == spans[i]
            top == spans[Top(i)]
        IN  sp.parent # 0 =>
              /\ sp.parent = ActiveSpanID(sp)
              /\ sp.tid = top.tid
              /\ sp.sampled = top.sampled
              /\ top.parent # 0 =>
                   /\ top.tid = DecodeHex(Seg(reqs[top.req].hdr, 2))
                   /\ top.sampled = (DecodeHex(Seg(reqs[top.req].hdr, 4)) % 2 = 1)

\* a sampled trace rooted in service A has reached getInfo in service B
C1_Witness ==
    \E c \in ReqIds :
        /\ IsCall(c) /\ HasSpan(c, "handler")
        /\ Top(NewSpanID(c, "handler")) = NewSpanID(Caller(c), "server")
        /\ SpanOf(Caller(c), "server").parent = 0
        /\ SpanOf(c, "handler").sampled

\* C2: a request without header makes service A a root T1; the header A
\* sends is 00-T1-{client span}-{A's flag}; the span B starts on receipt has
\* TraceID T1, the client span as parent, the header's flag and another id.
C2_HopCarriesClientSpan ==
    \A r \in ExternalIds :
        (reqs[r].svc = "A" /\ reqs[r].hdr = NoHeader
            /\ reqs[ChildOf(r)].pc # "idle") =>
          LET root   == SpanOf(r, "server")
              user   == SpanOf(r, "handler")
              client == SpanOf(r, "client")
              h      == reqs[ChildOf(r)].hdr
          IN  /\ root.parent = 0
              /\ client.sid \notin {root.sid, user.sid}
              /\ h = <<"0", "0", "-">> \o TraceIDString(root.tid) \o <<"-">>
                     \o EncodeHex(client.sid, SpanHexLen) \o <<"-">>
                     \o (IF root.sampled THEN <<"0", "1">> ELSE <<"0", "0">>)
              /\ Running(ChildOf(r)) =>
                   LET b == SpanOf(ChildOf(r), "server")
                   IN  /\ b.tid = root.tid
                       /\ b.parent = client.sid
                       /\ b.sampled = (Seg(h, 4) = <<"0", "1">>)
                       /\ b.sid # DecodeHex(Seg(h, 3))

\* service B has finished a request that belongs to a sampled root of A
C2_Witness ==
    \E r \in ExternalIds :
        /\ reqs[r].svc = "A" /\ reqs[r].hdr = NoHeader
        /\ reqs[ChildOf(r)].pc = "done"
        /\ SpanOf(ChildOf(r), "server").sampled
        /\ SpanOf(ChildOf(r), "server").ended

\* C3: a missing or malformed traceparent is absent for extract; the
\* receiving service starts a root span with a generated TraceID that is not
\* the sender's, and the request is served with status 200.
C3_BadHeaderStartsRoot ==
    \A r \in ReqIds :
        (Running(r) /\ reqs[r].hdr \in {NoHeader} \cup MalformedHeaders) =>
          LET sp == SpanOf(r, "server")
          IN  /\ Extract(reqs[r].hdr) = NoSC
              /\ sp.parent = 0 /\ ~sp.remote
              /\ sp.tid \in 1..MaxTraceIDs
              /\ sp.tid # ExtTraceID
              /\ \A q \in ReqIds \ {r} : Running(q) /\ SpanOf(q, "server").parent = 0
                                            => SpanOf(q, "server").tid # sp.tid
              /\ reqs[r].pc \in {"written", "logged", "done"} => reqs[r].status = StatusOK

\* service B has served a request that carried bogus-value
C3_Witness ==
    \E r \in ReqIds :
        /\ reqs[r].svc = "B" /\ reqs[r].hdr = BogusValue
        /\ reqs[r].pc = "done" /\ reqs[r].status = StatusOK
        /\ SpanOf(r, "server").parent = 0

\* the span whose context is bound where record l is written: the handler's
\* span for the business records, the server span for the access record
BoundSpan(l) ==
    IF l.msg = "HTTP Request" THEN SpanOf(l.req, "server") ELSE SpanOf(l.req, "handler")

\* C4: every record written under an active SpanContext has a trace_id
\* field, non-empty, that is the hex encoding of the context's TraceID.
C4_RequestLogsCarryTraceID ==
    \A l \in logs :
        l.req # 0 =>
          /\ l.has_trace_id
          /\ l.trace_id # <<>>
          /\ PartOK(l.trace_id, TraceHexLen)
          /\ DecodeHex(l.trace_id) = BoundSpan(l).tid
          /\ BoundSpan(l).tid = reqs[l.req].ctx.tid
          /\ BoundSpan(l).tid # 0

\* access and business records of one request of a generated trace
C4_Witness ==
    \E r \in ExternalIds :
        /\ reqs[r].svc = "A" /\ reqs[r].pc = "done"
        /\ SpanOf(r, "server").parent = 0
        /\ \E l \in logs : l.req = r /\ l.msg = "HTTP Request"
        /\ \E l \in logs : l.req = r /\ l.msg = "Returning user"
        /\ \E l \in logs : l.req = ChildOf(r) /\ l.msg = "Processed result"

\* C5 (as claimed): a record written with no active SpanContext has a
\* trace_id field, and the field is the empty string.
C5_NoContextEmptyTraceID ==
    \A l \in logs :
        (l.req = 0 \/ ~IsValid(reqs[l.req].ctx)) =>
            l.has_trace_id /\ l.trace_id = <<>>

\* the header's sampled bit
SampledBit(h) == DecodeHex(Seg(h, 4)) % 2 = 1

\* C6 (as claimed): with ratio 0 no span is sampled, with ratio 1 every
\* span is, spans under an extracted context included.
C6_RatioDecidesEverySpan ==
    \A i \in DOMAIN spans :
        /\ ratio = 0 => ~spans[i].sampled
        /\ ratio = 100 => spans[i].sampled

\* C6 (amended): with ratio 0 no span of a trace that one of the services
\* started is sampled, with ratio 1 every such span is; a span of a trace
\* that entered with a header has the header's sampled flag, whatever the
\* ratio.
C6_RatioDecidesOwnTraces ==
    \A i \in DOMAIN spans :
        LET top == spans[Top(i)]
        IN  IF top.parent = 0
            THEN /\ ratio = 0 => ~spans[i].sampled
                 /\ ratio = 100 => spans[i].sampled
            ELSE spans[i].sampled = SampledBit(reqs[top.req].hdr)

\* ratio 0: a generated trace whose id the 1% sampler would keep is not
\* sampled in service B, while a trace that entered sampled is
C6_Witness ==
    /\ ratio = 0
    /\ \E i \in DOMAIN spans :
          /\ spans[Top(i)].parent = 0 /\ spans[i].svc = "B"
          /\ TraceIDRatioBased(RatioPct, spans[i].tid) /\ ~spans[i].sampled
    /\ \E i \in DOMAIN spans :
          spans[Top(i)].parent # 0 /\ spans[i].sampled

\* C7: the sampled flag of a root span is a function of its TraceID and the
\* ratio: the low-order half of the TraceID, halved, lies below the whole
\* part of ratio times half the range; service, span name, SpanID and
\* request play no part.
C7_RootDecisionFromTraceID ==
    \A i \in Roots :
        spans[i].sampled <=>
            \/ ratio >= 100
            \/ (((spans[i].tid % Pow2(LowBits)) \div 2) + 1) * 100 <= ratio * Pow2(LowBits - 1)

\* at 1% the two services hold roots with both decisions
C7_Witness ==
    /\ ratio = RatioPct
    /\ \E i, j \in Roots :
          /\ spans[i].svc = "A" /\ spans[j].svc = "B"
          /\ spans[i].sampled /\ ~spans[j].sampled

\* header values the propagator produces for the context extracted from
\* request r's header: as such, and through the spans of service A
Reinjected(r) ==
    {Inject(Extract(reqs[r].hdr))}
        \cup (IF reqs[r].svc = "A" /\ reqs[ChildOf(r)].pc # "idle"
              THEN {reqs[ChildOf(r)].hdr} ELSE {})

\* C8 (as claimed): extract then inject reproduces the version, trace-id and
\* flags segments of every valid inbound header.
C8_RoundTripByteIdentical ==
    \A r \in ExternalIds :
        (Running(r) /\ IsValid(Extract(reqs[r].hdr))) =>
            \A out \in Reinjected(r) :
                /\ Seg(out, 1) = Seg(reqs[r].hdr, 1)
                /\ Seg(out, 2) = Seg(reqs[r].hdr, 2)
                /\ Seg(out, 4) = Seg(reqs[r].hdr, 4)

\* C8 (amended): extract then inject reproduces the trace-id segment and the
\* sampled bit; the version written is 00 and the flags are 00 or 01.
C8_RoundTripTraceAndSampled ==
    \A r \in ExternalIds :
        (Running(r) /\ IsValid(Extract(reqs[r].hdr))) =>
            \A out \in Reinjected(r) :
                /\ Seg(out, 2) = Seg(reqs[r].hdr, 2)
                /\ SampledBit(out) = SampledBit(reqs[r].hdr)
                /\ Seg(out, 1) = <<"0", "0">>
                /\ Seg(out, 4) \in {<<"0", "0">>, <<"0", "1">>}
                /\ Len(Seg(out, 3)) = SpanHexLen
                /\ Len(out) = TraceHexLen + SpanHexLen + 7

\* service A has passed on a version-01 sampled trace and a flags-02 one
C8_Witness ==
    /\ \E r \in ExternalIds :
          /\ reqs[r].svc = "A" /\ reqs[r].hdr = HdrVersion01
          /\ reqs[ChildOf(r)].pc # "idle" /\ SampledBit(reqs[ChildOf(r)].hdr)
    /\ \E r \in ExternalIds :
          /\ reqs[r].svc = "A" /\ reqs[r].hdr = HdrFlags02
          /\ reqs[ChildOf(r)].pc # "idle"

Min(a, b) == IF a < b THEN a ELSE b

\* sampled spans service s has finished
Finished(s) == {i \in DOMAIN spans : spans[i].svc = s /\ spans[i].ended /\ spans[i].sampled}

QueueSet(s) == {queue[s][k] : k \in 1..Len(queue[s])}

\* C9: while the consumer has taken nothing, n finished sampled spans leave
\* min(n, capacity) in the queue and n - capacity counted as dropped (C and 5
\* for n = C + 5); span.End never waits and never fails: a request whose
\* spans were dropped is served with status 200 all the same.  Queued,
\* exported and dropped always add up to the finished sampled spans.
C9_FullQueueDropsAndCounts ==
    \A s \in Services :
        LET n == Cardinality(Finished(s))
        IN  /\ Len(queue[s]) <= MaxQueueSize
            /\ Len(queue[s]) + Cardinality(exported[s]) + dropped[s] = n
            /\ Cardinality(QueueSet(s)) = Len(queue[s])
            /\ QueueSet(s) \cap exported[s] = {}
            /\ exported[s] = {} =>
                 /\ Len(queue[s]) = Min(n, MaxQueueSize)
                 /\ dropped[s] = n - Min(n, MaxQueueSize)
            /\ \A r \in ReqIds :
                 (reqs[r].svc = s /\ reqs[r].pc = "done") => reqs[r].status = StatusOK

\* capacity + 5 sampled spans finished in service A before the consumer ran:
\* the queue is full, 5 are counted, the requests are served
C9_Witness ==
    /\ Cardinality(Finished("A")) = MaxQueueSize + 5
    /\ exported["A"] = {}
    /\ Len(queue["A"]) = MaxQueueSize
    /\ dropped["A"] = 5
    /\ \E r \in ExternalIds : reqs[r].svc = "A" /\ reqs[r].pc = "done"

\* span i is ended by this step
EndsNow(i) ==
    /\ i \in DOMAIN spans' /\ spans'[i].ended
    /\ (i \in DOMAIN spans => ~spans[i].ended)

\* C10: whatever is queued for export or exported is a finished, sampled
\* span of that service, and a step that ends an unsampled span leaves
\* queue, exporter and drop counter as they were.
C10_OnlySampledExported ==
    /\ [](\A s \in Services : \A i \in QueueSet(s) \cup exported[s] :
            /\ i \in DOMAIN spans
            /\ spans[i].ended /\ spans[i].sampled /\ spans[i].svc = s)
    /\ [][\A i \in DOMAIN spans' :
            (EndsNow(i) /\ ~spans'[i].sampled) =>
                queue' = queue /\ exported' = exported /\ dropped' = dropped]_vars

\* an unsampled trace has finished spans while a sampled span was exported
C10_Witness ==
    /\ \E i \in DOMAIN spans : spans[i].ended /\ ~spans[i].sampled
    /\ \E s \in Services : exported[s] # {}

\* the deferred resp.Body.Close() of request r has run on a body that was
\* read to EOF: End was called on r's client span a second time
BodyClosed(r) ==
    /\ reqs[r].svc = "A" /\ ~reqs[r].err
    /\ reqs[r].pc \in {"returned", "written", "logged", "done"}

\* how often span i stands in the export path of its service
Copies(q, e, i) ==
    Cardinality({k \in 1..Len(q) : q[k] = i}) + (IF i \in e THEN 1 ELSE 0)

\* C11 (as claimed): a second End on a finished span leaves the span as it
\* was, does not queue it again, and is reported by a warning record.
C11_SecondEndReported ==
    \A r \in ExternalIds :
        BodyClosed(r) =>
          /\ SpanOf(r, "client").endedAt = "eof"
          /\ Copies(queue["A"], exported["A"], NewSpanID(r, "client")) <= 1
          /\ \E l \in logs : l.req = r /\ l.level = "warn"

\* C11 (amended): a second End on a finished span is a silent no-op: the
\* step that makes it leaves the span (its end stamp included) and its place
\* in the export path as they were, the span is queued or exported at most
\* once, no warning or error record is written for it, and the request is
\* served with status 200.
C11_SecondEndSilentNoOp ==
    /\ [](\A r \in ExternalIds :
            BodyClosed(r) =>
              /\ SpanOf(r, "client").ended
              /\ SpanOf(r, "client").endedAt = "eof"
              /\ Copies(queue["A"], exported["A"], NewSpanID(r, "client")) <= 1
              /\ \A l \in logs : l.req = r => l.level = "info"
              /\ reqs[r].pc = "done" => reqs[r].status = StatusOK)
    /\ [][\A r \in ExternalIds :
            (~BodyClosed(r) /\ BodyClosed(r)') =>
              /\ SpanOf(r, "client")' = SpanOf(r, "client")
              /\ Copies(queue["A"], exported["A"], NewSpanID(r, "client"))'
                   = Copies(queue["A"], exported["A"], NewSpanID(r, "client"))]_vars

\* the body of a sampled call was closed after its client span had been
\* handed to the exporter
C11_Witness ==
    \E r \in ExternalIds :
        /\ BodyClosed(r) /\ reqs[r].pc = "done"
        /\ SpanOf(r, "client").sampled
        /\ NewSpanID(r, "client") \in exported["A"]

\* C12: tracer.Start leaves the context it is given as it was: the context
\* of a request keeps the server span's SpanContext while any number of
\* spans are started from it, in this request and in others; the spans
\* started from it (getUser or getInfo, gin.renderer.html) all have the
\* server span as parent and its TraceID, none has a sibling as parent, and
\* the span started from the context getUser got back has getUser as parent.
C12_StartLeavesParentContext ==
    /\ [](\A r \in ReqIds :
            Running(r) =>
              LET server == SpanOf(r, "server")
              IN  /\ reqs[r].ctx = SC(server)
                  /\ \A k \in {"handler", "render"} :
                        HasSpan(r, k) =>
                          /\ SpanOf(r, k).parent = server.sid
                          /\ SpanOf(r, k).tid = server.tid
                  /\ HasSpan(r, "render") =>
                        SpanOf(r, "render").parent # SpanOf(r, "handler").sid
                  /\ HasSpan(r, "client") =>
                        /\ SpanOf(r, "client").parent = SpanOf(r, "handler").sid
                        /\ SpanOf(r, "client").tid = server.tid)
    /\ [][\A r \in ReqIds :
            Running(r) =>
              /\ reqs'[r].ctx = reqs[r].ctx
              /\ \A k \in {"server", "handler"} :
                    HasSpan(r, k) =>
                      /\ SpanOf(r, k)'.sid = SpanOf(r, k).sid
                      /\ SpanOf(r, k)'.tid = SpanOf(r, k).tid
                      /\ SpanOf(r, k)'.parent = SpanOf(r, k).parent]_vars

\* two requests in service A at once: one has started getUser and the
\* renderer from its context, the other is between getUser and its call
C12_Witness ==
    \E r, q \in ExternalIds :
        /\ r # q /\ reqs[r].svc = "A" /\ reqs[q].svc = "A"
        /\ HasSpan(r, "handler") /\ HasSpan(r, "render") /\ HasSpan(r, "client")
        /\ reqs[q].pc \in {"user", "wait"}
        /\ SpanOf(r, "render").parent = SpanOf(r, "server").sid

\* positions of service A's handler chain after getUser has returned
AfterGetUser == {"returned", "written", "logged", "done"}

\* C13: a call to service B that fails changes neither TraceID nor sampled
\* flag of any span; the client span and the getUser span are finished all
\* the same, the error is written under the request's TraceID, and service A
\* answers with the name that belongs to the id ("otelgin tester" for 123,
\* "unknown" otherwise, as after a successful call) and status 200.
C13_FailedCallStillServed ==
    /\ [](\A r \in ExternalIds :
            (reqs[r].svc = "A" /\ reqs[r].err) =>
              LET server == SpanOf(r, "server")
                  user   == SpanOf(r, "handler")
                  client == SpanOf(r, "client")
              IN  /\ client.ended
                  /\ client.tid = server.tid /\ user.tid = server.tid
                  /\ client.sampled = server.sampled /\ user.sampled = server.sampled
                  /\ \E l \in logs : /\ l.req = r /\ l.level = "error"
                                      /\ DecodeHex(l.trace_id) = server.tid
                  /\ reqs[r].pc \in AfterGetUser =>
                        /\ user.ended
                        /\ reqs[r].id = "123" => reqs[r].result = "otelgin tester"
                        /\ reqs[r].id # "123" => reqs[r].result = "unknown"
                        /\ \A q \in ExternalIds :
                              (reqs[q].svc = "A" /\ reqs[q].pc \in AfterGetUser
                                 /\ reqs[q].id = reqs[r].id)
                                  => reqs[q].result = reqs[r].result
                  /\ reqs[r].pc \in {"written", "logged", "done"} =>
                        reqs[r].status = StatusOK)
    /\ [][\A r \in ExternalIds :
            (~reqs[r].err /\ reqs'[r].err) =>
              \A i \in DOMAIN spans :
                  /\ spans'[i].tid = spans[i].tid
                  /\ spans'[i].sampled = spans[i].sampled]_vars

\* a sampled request whose call failed and a request with the same id whose
\* call succeeded have both been served
C13_Witness ==
    \E r, q \in ExternalIds :
        /\ reqs[r].svc = "A" /\ reqs[r].err /\ reqs[r].pc = "done"
        /\ SpanOf(r, "server").sampled
        /\ reqs[r].id = "7" /\ reqs[r].status = StatusOK
        /\ reqs[q].svc = "A" /\ ~reqs[q].err /\ reqs[q].pc = "done"
        /\ reqs[q].id = "7"

\* requests r and q reached the same service with the same traceparent and
\* the same id; where the service had to generate the TraceIDs, the two
\* generated TraceIDs get the same answer from the ratio sampler
SameButBaggage(r, q) ==
    /\ r # q /\ Running(r) /\ Running(q)
    /\ reqs[r].svc = reqs[q].svc /\ reqs[r].hdr = reqs[q].hdr /\ reqs[r].id = reqs[q].id
    /\ ~IsValid(Extract(reqs[r].hdr)) =>
          TraceIDRatioBased(ratio, SpanOf(r, "server").tid)
            = TraceIDRatioBased(ratio, SpanOf(q, "server").tid)

AllKinds == {Kinds[i] : i \in 1..Len(Kinds)}

\* C14: two requests that differ in the baggage header only (absent, one
\* member, another value, malformed) get the same sampled flag on every span
\* they produce, in the service that received them and in the service it
\* calls, and the same sampled bit in the traceparent sent on.
C14_BaggageDoesNotSample ==
    \A r, q \in ExternalIds :
        SameButBaggage(r, q) =>
          /\ \A k \in AllKinds :
                /\ (HasSpan(r, k) /\ HasSpan(q, k)) =>
                      SpanOf(r, k).sampled = SpanOf(q, k).sampled
                /\ (HasSpan(ChildOf(r), k) /\ HasSpan(ChildOf(q), k)) =>
                      SpanOf(ChildOf(r), k).sampled = SpanOf(ChildOf(q), k).sampled
          /\ (reqs[ChildOf(r)].pc # "idle" /\ reqs[ChildOf(q)].pc # "idle") =>
                SampledBit(reqs[ChildOf(r)].hdr) = SampledBit(reqs[ChildOf(q)].hdr)

\* of two requests inside an unsampled trace one carried baggage, which
\* service A passed on to service B, and the other carried none
C14_Witness ==
    \E r, q \in ExternalIds :
        /\ SameButBaggage(r, q)
        /\ reqs[r].svc = "A" /\ reqs[r].hdr = HdrUnsampled
        /\ reqs[r].bag = BagKV /\ reqs[q].bag = NoBaggage
        /\ reqs[ChildOf(r)].pc = "done" /\ reqs[ChildOf(q)].pc = "done"
        /\ reqs[ChildOf(r)].baggage = ParseBaggage(BagKV)
        /\ reqs[ChildOf(q)].baggage = {}

\* C15 (as claimed): once the handler chain of a cancelled request is over,
\* every span that was open when the request was cancelled is finished and
\* carries a "cancelled" attribute.
C15_CancelledSpansMarked ==
    \A r \in ReqIds :
        (reqs[r].cancelled /\ reqs[r].pc = "done") =>
            \A i \in reqs[r].openAtCancel :
                spans[i].ended /\ "cancelled" \in spans[i].attrs

\* header h has two lowercase hex digits other than 00 as version, and its
\* trace-id, span-id and flags segments are well-formed and in place
OtherVersion(h) ==
    /\ PartOK(Seg(h, 1), 2) /\ Seg(h, 1) # <<"0", "0">>
    /\ PartOK(Seg(h, 2), TraceHexLen) /\ DecodeHex(Seg(h, 2)) # 0
    /\ PartOK(Seg(h, 3), SpanHexLen) /\ DecodeHex(Seg(h, 3)) # 0
    /\ PartOK(Seg(h, 4), 2)
    /\ Len(h) = TraceHexLen + SpanHexLen + 7

\* request r continues the trace its header names
Continues(r) ==
    LET h  == reqs[r].hdr
        sp == SpanOf(r, "server")
    IN  /\ Extract(h) = [tid |-> DecodeHex(Seg(h, 2)), sid |-> DecodeHex(Seg(h, 3)),
                         sampled |-> SampledBit(h), remote |-> TRUE]
        /\ sp.tid = DecodeHex(Seg(h, 2))
        /\ sp.parent = DecodeHex(Seg(h, 3))
        /\ sp.sampled = SampledBit(h)
        /\ sp.remote

\* C16 (as claimed): every header of another version than 00 whose other
\* segments are well-formed is accepted, and the service continues its trace.
C16_AnyVersionAccepted ==
    \A r \in ExternalIds :
        (Running(r) /\ OtherVersion(reqs[r].hdr)) => Continues(r)

\* C16 (amended): a header of version 01 to fe whose other segments are
\* well-formed is accepted, whatever its flags byte, and the service
\* continues its trace with the header's trace-id, span-id and sampled bit;
\* version ff is absent for extract and the service starts a root.
C16_VersionsBelowFFAccepted ==
    \A r \in ExternalIds :
        (Running(r) /\ OtherVersion(reqs[r].hdr)) =>
            IF Seg(reqs[r].hdr, 1) # <<"f", "f">>
            THEN Continues(r)
            ELSE /\ Extract(reqs[r].hdr) = NoSC
                 /\ SpanOf(r, "server").parent = 0
                 /\ SpanOf(r, "server").tid \in 1..MaxTraceIDs

\* service B has continued a version-fe trace unsampled, and a version-02
\* trace with flags 03 is continued sampled
C16_Witness ==
    /\ \E r \in ExternalIds :
          /\ reqs[r].svc = "B" /\ reqs[r].hdr = HdrVersionFE /\ reqs[r].pc = "done"
          /\ SpanOf(r, "handler").tid = ExtTraceID /\ ~SpanOf(r, "handler").sampled
    /\ \E r \in ExternalIds :
          /\ reqs[r].hdr = HdrVersion02Flags03 /\ Running(r)
          /\ SpanOf(r, "server").tid = ExtTraceID /\ SpanOf(r, "server").sampled

\* the trace request r belongs to
TraceOf(r) == SpanOf(r, "server").tid

\* C17: whatever the interleaving of the requests in flight, the trace_id of
\* a request's access record is the trace_id of every business record the
\* same request's handler wrote, and no record of a request carries the
\* TraceID of a request that belongs to another trace.
C17_LogsOfOneRequestAgree ==
    /\ \A a, b \in logs :
          (a.req # 0 /\ a.req = b.req /\ a.msg = "HTTP Request") =>
              /\ a.has_trace_id /\ b.has_trace_id
              /\ a.trace_id = b.trace_id
    /\ \A l \in logs : \A q \in ReqIds :
          (l.req # 0 /\ Running(q) /\ TraceOf(q) # TraceOf(l.req)) =>
              l.trace_id # TraceIDString(TraceOf(q))

\* the second request to service A was handled from start to end, its
\* access record written, while the first one, of another trace, was still
\* waiting for service B
C17_Witness ==
    \E r, q \in ExternalIds :
        /\ r < q /\ reqs[r].svc = "A" /\ reqs[q].svc = "A"
        /\ reqs[r].pc = "wait" /\ reqs[q].pc = "done"
        /\ TraceOf(r) # TraceOf(q)
        /\ \E l \in logs : l.req = r /\ l.msg = "Calling service-b"
        /\ \E l \in logs : l.req = q /\ l.msg = "HTTP Request"
        /\ \E l \in logs : l.req = q /\ l.msg = "Returning user"

\* the records request r and the call it made have written
LogsOfTrace(r) == {l \in logs : l.req \in {r, ChildOf(r)}}

\* C18: for a request to service A whose trace is not sampled, the call to
\* service B still carries traceparent 00-{TraceID}-{client span}-00,
\* service B continues that trace unsampled, every record of both services
\* has the trace's TraceID, non-empty, as trace_id, and no span of the trace
\* is queued for export or exported.
C18_UnsampledStillCorrelated ==
    \A r \in ExternalIds :
        (reqs[r].svc = "A" /\ Running(r) /\ ~SpanOf(r, "server").sampled) =>
          LET T == TraceOf(r)
              c == ChildOf(r)
          IN  /\ T # 0
              /\ reqs[c].pc # "idle" =>
                    /\ reqs[c].hdr = <<"0", "0", "-">> \o TraceIDString(T) \o <<"-">>
                           \o EncodeHex(SpanOf(r, "client").sid, SpanHexLen)
                           \o <<"-", "0", "0">>
                    /\ Running(c) =>
                          /\ TraceOf(c) = T
                          /\ ~SpanOf(c, "server").sampled
                          /\ SpanOf(c, "server").parent = SpanOf(r, "client").sid
              /\ \A l \in LogsOfTrace(r) :
                    /\ l.has_trace_id
                    /\ l.trace_id # <<>>
                    /\ l.trace_id = TraceIDString(T)
              /\ \A i \in DOMAIN spans :
                    spans[i].tid = T =>
                      \A s \in Services : i \notin QueueSet(s) \cup exported[s]

\* an unsampled trace has gone through both services and back, with records
\* in both, while the exporter has received spans of another trace
C18_Witness ==
    \E r \in ExternalIds :
        /\ reqs[r].svc = "A" /\ reqs[r].pc = "done" /\ ~reqs[r].err
        /\ ~SpanOf(r, "server").sampled
        /\ reqs[ChildOf(r)].pc = "done"
        /\ \E l \in logs : l.req = r /\ l.msg = "HTTP Request"
        /\ \E l \in logs : l.req = ChildOf(r) /\ l.msg = "HTTP Request"
        /\ \E l \in logs : l.req = ChildOf(r) /\ l.msg = "Processed result"
        /\ exported["A"] # {} /\ exported["B"] # {}

\* the access records of request r
AccessRecords(r) == {l \in logs : l.req = r /\ l.msg = "HTTP Request"}

\* C19: a request has no access record until its handlers have run and the
\* response status is set, and exactly one from then on; the record's level
\* is Error for a status of 500 and above, Warn for 400 to 499, Info
\* otherwise (200 of the two handlers, 404 where no route matches).
C19_OneAccessRecordLevelByStatus ==
    \A r \in ReqIds :
        /\ reqs[r].pc \notin {"logged", "done"} =>
              reqs[r].accessLogs = 0 /\ AccessRecords(r) = {}
        /\ reqs[r].pc \in {"logged", "done"} =>
              /\ reqs[r].accessLogs = 1
              /\ Cardinality(AccessRecords(r)) = 1
              /\ reqs[r].status \in {StatusOK, StatusNotFound}
              /\ reqs[r].route => HasSpan(r, "handler") /\ SpanOf(r, "handler").ended
              /\ \A l \in AccessRecords(r) :
                    /\ reqs[r].status >= 500 => l.level = "error"
                    /\ (reqs[r].status >= 400 /\ reqs[r].status < 500) => l.level = "warn"
                    /\ reqs[r].status < 400 => l.level = "info"

\* service A has answered 404 with a Warn record while a request it served
\* with 200 has an Info record
C19_Witness ==
    \E r, q \in ExternalIds :
        /\ reqs[r].svc = "A" /\ reqs[r].pc = "done" /\ reqs[r].status = StatusNotFound
        /\ \E l \in AccessRecords(r) : l.level = "warn"
        /\ reqs[q].svc = "A" /\ reqs[q].pc = "done" /\ reqs[q].status = StatusOK
        /\ \E l \in AccessRecords(q) : l.level = "info"

=============================================================================
